---- MODULE Spec2Model ----
(***************************************************************************)
(* State-machine model of the e-commerce backend in src/main.py (FastAPI   *)
(* handlers over a MongoDB document store) and src/schemas.py (the request *)
(* shapes).                                                                *)
(*                                                                         *)
(* Conventions                                                             *)
(*   - Text that the code inspects character by character (titles, the     *)
(*     search parameter q, identifier strings, the payment URL) is a       *)
(*     sequence of code points: "Card" is <<67, 97, 114, 100>>.  Text that *)
(*     is only compared for equality (emails, passwords, categories,       *)
(*     messages) is a TLA+ string; string equality is exact and            *)
(*     case-sensitive, as in Python and in a MongoDB equality filter.      *)
(*   - Optional[T] is a sequence of length at most one: None is << >> and  *)
(*     a present value v is <<v>>.                                         *)
(*   - A dict is a function from field names to values.                    *)
(*   - A float with one decimal (a rating) is kept in tenths: 4.8 is 48.   *)
(*     Prices are whole numbers in the seed data and in the inputs.        *)
(*   - A collection is the sequence of its documents in insertion order.   *)
(***************************************************************************)
EXTENDS Integers, Sequences, FiniteSets, TLC

VARIABLES
    db,         \* the process-wide store handle: "None" or "Database"
    product,    \* collection "product"
    blogpost,   \* collection "blogpost"
    order,      \* collection "order"
    contact,    \* collection "contact"
    user,       \* collection "user"
    nextOid,    \* the driver's ObjectId counter
    starts,     \* number of process starts (imports of main.py) so far
    seedRuns,   \* history: runs of seed_database that had a live handle
    last,       \* the most recent request and its response
    pend,       \* register requests in flight between their two store calls
    checkedAt,  \* history: checkedAt[j] = size of "user" when the request that
                \* inserted user[j] ran its find_one pre-check
    ser         \* serialization on its own: the document drawn (doc), the result
                \* of the first application (first) and of the latest one (out)

vars == <<db, product, blogpost, order, contact, user, nextOid, starts,
          seedRuns, last, pend, checkedAt, ser>>

-----------------------------------------------------------------------------
(* Bounds of the model.                                                    *)

MaxStarts == 3
MaxUsers == 2
MaxOrders == 1
MaxContacts == 1
MaxInflight == 2

-----------------------------------------------------------------------------
(* Python values.                                                          *)

None == << >>
Some(v) == <<v>>

\* A dynamically typed value of a document's "_id" / "id" field.
PyNone == [t |-> "None", v |-> << >>]
PyStr(s) == [t |-> "str", v |-> s]
PyInt(n) == [t |-> "int", v |-> <<n>>]
PyOid(b) == [t |-> "ObjectId", v |-> b]

\* Python truthiness, as `if doc.get("_id")` evaluates it.
Truthy(x) ==
    CASE x.t = "None" -> FALSE
      [] x.t = "str" -> x.v # << >>
      [] x.t = "int" -> x.v # <<0>>
      [] x.t = "ObjectId" -> TRUE

Min(a, b) == IF a < b THEN a ELSE b

-----------------------------------------------------------------------------
(* bson.ObjectId: 12 bytes, written as 24 hexadecimal characters.          *)

HexDigits == <<48, 49, 50, 51, 52, 53, 54, 55, 56, 57, 97, 98, 99, 100, 101, 102>>

\* Value of one hexadecimal character, -1 if it is none (bytes.fromhex
\* takes both cases).  Whitespace is not in any input of this model.
HexVal(c) ==
    IF c \in 48..57 THEN c - 48
    ELSE IF c \in 97..102 THEN c - 87
    ELSE IF c \in 65..70 THEN c - 55
    ELSE -1

\* ObjectId.is_valid(v) for a str.
ObjectId_is_valid(s) == Len(s) = 24 /\ \A i \in 1..24 : HexVal(s[i]) >= 0

\* ObjectId(s) for a valid s: the 12 bytes.
ObjectId(s) == [i \in 1..12 |-> HexVal(s[2 * i - 1]) * 16 + HexVal(s[2 * i])]

\* str(ObjectId): 24 lower-case hexadecimal characters.
OidToStr(b) ==
    [k \in 1..24 |->
        IF k % 2 = 1 THEN HexDigits[(b[(k + 1) \div 2] \div 16) + 1]
        ELSE HexDigits[(b[(k + 1) \div 2] % 16) + 1]]

\* The n-th identifier the driver generates: a fixed prefix standing for the
\* timestamp and process bytes, then the counter.
NewObjectId(n) == [i \in 1..12 |-> IF i = 1 THEN 171 ELSE IF i = 12 THEN n % 256 ELSE 0]

\* ObjectIds order bytewise.
OidLess(a, b) ==
    \E i \in 1..12 : a[i] < b[i] /\ \A j \in 1..(i - 1) : a[j] = b[j]

\* str(x) of a Python value.
Str(x) ==
    CASE x.t = "ObjectId" -> OidToStr(x.v)
      [] x.t = "str" -> x.v
      [] x.t = "int" -> <<48 + x.v[1]>>
      [] x.t = "None" -> <<78, 111, 110, 101>>

-----------------------------------------------------------------------------
(* Dicts.                                                                  *)

WithField(doc, k, val) == [f \in (DOMAIN doc) \cup {k} |-> IF f = k THEN val ELSE doc[f]]
Pop(doc, k) == [f \in (DOMAIN doc) \ {k} |-> doc[f]]
EmptyDict == [f \in {} |-> 0]

\* serialize_doc with a fault: the identifier is copied but "_id" is left in place.
serialize_doc_keeps_id(doc) ==
    IF DOMAIN doc = {} THEN doc
    ELSE LET idv == IF "_id" \in DOMAIN doc THEN doc["_id"] ELSE PyNone
         IN  IF Truthy(idv) THEN WithField(doc, "id", PyStr(Str(idv)))
             ELSE WithField(doc, "id", PyNone)

\* serialize_doc: `if not doc: return doc`, then
\* doc["id"] = str(doc.pop("_id")) if doc.get("_id") else None
serialize_doc(doc) ==
    IF DOMAIN doc = {} THEN doc
    ELSE LET idv == IF "_id" \in DOMAIN doc THEN doc["_id"] ELSE PyNone
         IN  IF Truthy(idv) THEN WithField(Pop(doc, "_id"), "id", PyStr(Str(idv)))
             ELSE WithField(doc, "id", PyNone)

SerializeAll(docs) == [i \in 1..Len(docs) |-> serialize_doc(docs[i])]

-----------------------------------------------------------------------------
(* The store: pymongo collection operations.                               *)

\* insert_one / insert_many: each document gets the next ObjectId.
WithIds(docs, n) ==
    [i \in 1..Len(docs) |-> WithField(docs[i], "_id", PyOid(NewObjectId(n + i - 1)))]

\* find_one({"_id": oid}): the first document with that identifier, or None.
FindById(coll, oid) ==
    LET hits == {i \in 1..Len(coll) : coll[i]["_id"] = PyOid(oid)}
    IN  IF hits = {} THEN None
        ELSE Some(coll[CHOOSE i \in hits : \A j \in hits : i <= j])

-----------------------------------------------------------------------------
(* Seed data on first run.  The fields no handler reads (description,      *)
(* images, thumbnail; excerpt, content, thumbnail, tags) are left out of   *)
(* the sample documents.                                                   *)

sample_products ==
    << [title |-> <<71, 108, 97, 115, 115, 32, 67, 97, 114, 100, 32, 80, 114, 111>>,  \* "Glass Card Pro"
        price |-> 199, category |-> "Cards", stock |-> 50, rating |-> 48, featured |-> TRUE],
       [title |-> <<77, 101, 116, 97, 108, 32, 67, 97, 114, 100, 32, 88>>,            \* "Metal Card X"
        price |-> 299, category |-> "Cards", stock |-> 20, rating |-> 49, featured |-> TRUE],
       [title |-> <<67, 97, 114, 100, 32, 83, 108, 101, 101, 118, 101>>,              \* "Card Sleeve"
        price |-> 29, category |-> "Accessories", stock |-> 200, rating |-> 46, featured |-> FALSE] >>

sample_posts ==
    << [title |-> \* "Designing the Future of Payments"
                  <<68, 101, 115, 105, 103, 110, 105, 110, 103, 32, 116, 104, 101, 32, 70, 117, 116, 117, 114, 101, 32, 111, 102, 32, 80, 97, 121, 109, 101, 110, 116, 115>>,
        author |-> "Admin"],
       [title |-> \* "How We Built Metal Card X"
                  <<72, 111, 119, 32, 87, 101, 32, 66, 117, 105, 108, 116, 32, 77, 101, 116, 97, 108, 32, 67, 97, 114, 100, 32, 88>>,
        author |-> "Admin"] >>

\* SeedNeeded with a fault: the count check is dropped, every start inserts.
SeedAlways(coll) == TRUE

\* `db[...].count_documents({}) == 0`
SeedNeeded(coll) == Len(coll) = 0

\* seed_database(), given the handle it sees.
seed_database(handle) ==
    IF handle = "None"
    THEN UNCHANGED <<product, blogpost, nextOid, seedRuns>>
    ELSE LET np == IF SeedNeeded(product) THEN Len(sample_products) ELSE 0
             nb == IF SeedNeeded(blogpost) THEN Len(sample_posts) ELSE 0
         IN  /\ product' = IF np > 0 THEN product \o WithIds(sample_products, nextOid)
                           ELSE product
             /\ blogpost' = IF nb > 0 THEN blogpost \o WithIds(sample_posts, nextOid + np)
                            ELSE blogpost
             /\ nextOid' = nextOid + np + nb
             /\ seedRuns' = seedRuns + 1

NoRequest == [op |-> "none", req |-> << >>, status |-> 0, body |-> << >>, queried |-> FALSE]

Idle == [pc |-> "idle"]

\* A process start: main.py is imported, `db` is bound (None when the store
\* could not be reached) and seed_database() runs (line 116).  Requests of the
\* previous process that were in flight are gone.
Startup(handle) ==
    /\ starts < MaxStarts
    /\ starts' = starts + 1
    /\ db' = handle
    /\ seed_database(handle)
    /\ pend' = [r \in 1..MaxInflight |-> Idle]
    /\ last' = NoRequest
    /\ UNCHANGED <<order, contact, user, checkedAt, ser>>

Init ==
    /\ db = "None"
    /\ product = << >>
    /\ blogpost = << >>
    /\ order = << >>
    /\ contact = << >>
    /\ user = << >>
    /\ nextOid = 1
    /\ starts = 0
    /\ seedRuns = 0
    /\ last = NoRequest
    /\ pend = [r \in 1..MaxInflight |-> Idle]
    /\ checkedAt = << >>
    /\ ser = [n |-> 0, doc |-> EmptyDict, first |-> EmptyDict, out |-> EmptyDict]

-----------------------------------------------------------------------------
(* Requests and responses.  A handler runs from a state in which no        *)
(* response is waiting (last = NoRequest) and leaves its request and its   *)
(* response in `last`; Respond hands the response to the client.           *)

Response(st, b, qd) == [status |-> st, body |-> b, queried |-> qd]

\* FastAPI's answer to a request that fails the declared parameter or body
\* validation: RequestValidationError, status 422; the handler does not run.
Unprocessable == Response(422, [detail |-> "validation error"], FALSE)

HTTPException(status_code, detail) == Response(status_code, [detail |-> detail], FALSE)

\* The process is up and no response is waiting: a request may be taken.
Ready == starts >= 1 /\ last = NoRequest

Handle(opname, request, resp) ==
    /\ Ready
    /\ last' = [op |-> opname, req |-> request, status |-> resp.status,
                body |-> resp.body, queried |-> resp.queried]

Respond ==
    /\ last # NoRequest
    /\ last' = NoRequest
    /\ UNCHANGED <<db, product, blogpost, order, contact, user, nextOid, starts,
                   seedRuns, pend, checkedAt, ser>>

-----------------------------------------------------------------------------
(* Products.                                                               *)

\* Query(None, ge=0) on an Optional[float].
Ge0(x) == x = None \/ x[1] >= 0

\* Query(None, ge=0, le=5) on min_rating (in tenths).
RatingOk(x) == x = None \/ (x[1] >= 0 /\ x[1] <= 50)

\* LimitOk with a fault: the upper bound is not enforced.
LimitOkNoUpper(limit) == limit >= 1

\* Query(.., ge=1, le=100) on limit.
LimitOk(limit) == limit >= 1 /\ limit <= 100

\* Query(0, ge=0) on skip.
SkipOk(skip) == skip >= 0

Lower(c) == IF c \in 65..90 THEN c + 32 ELSE c

\* {"$regex": pat, "$options": "i"}: an unanchored, case-insensitive regular
\* expression search.  Patterns here are made of literal characters and "."
\* (code point 46), which matches any character.
RegexSearchI(pat, text) ==
    \E i \in 0..(Len(text) - Len(pat)) :
        \A k \in 1..Len(pat) : pat[k] = 46 \/ Lower(pat[k]) = Lower(text[i + k])

\* The filter document list_products builds.  An absent key is None.
BuildFilter(q, category, min_price, max_price, min_rating, featured) ==
    [ title    |-> IF q # None /\ q[1] # << >> THEN Some(q[1]) ELSE None,
      category |-> IF category # None /\ category[1] # "" THEN Some(category[1]) ELSE None,
      price    |-> IF min_price # None \/ max_price # None
                   THEN Some([gte |-> min_price, lte |-> max_price]) ELSE None,
      rating   |-> IF min_rating # None THEN Some(min_rating[1]) ELSE None,
      featured |-> IF featured # None THEN Some(featured[1]) ELSE None ]

\* Whether a product document matches the filter document.
MatchesFilter(doc, filt) ==
    /\ filt.title # None => RegexSearchI(filt.title[1], doc["title"])
    /\ filt.category # None => doc["category"] = filt.category[1]
    /\ filt.price # None =>
          /\ filt.price[1].gte # None => doc["price"] >= filt.price[1].gte[1]
          /\ filt.price[1].lte # None => doc["price"] <= filt.price[1].lte[1]
    /\ filt.rating # None => doc["rating"] >= filt.rating[1]
    /\ filt.featured # None => doc["featured"] = filt.featured[1]

RECURSIVE Find(_, _)
\* find(filt): the matching documents in natural (insertion) order.
Find(coll, filt) ==
    IF coll = << >> THEN << >>
    ELSE (IF MatchesFilter(coll[1], filt) THEN <<coll[1]>> ELSE << >>)
         \o Find(Tail(coll), filt)

\* cursor.skip(skip).limit(limit); limit(0) means no limit.
SkipLimit(docs, skip, limit) ==
    SubSeq(docs, skip + 1, IF limit = 0 THEN Len(docs) ELSE Min(Len(docs), skip + limit))

list_products_resp(q, category, min_price, max_price, min_rating, featured, limit, skip) ==
    IF ~(Ge0(min_price) /\ Ge0(max_price) /\ RatingOk(min_rating)
         /\ LimitOk(limit) /\ SkipOk(skip))
    THEN Unprocessable
    ELSE IF db = "None" THEN Response(200, << >>, FALSE)
    ELSE LET filt == BuildFilter(q, category, min_price, max_price, min_rating, featured)
         IN  Response(200, SerializeAll(SkipLimit(Find(product, filt), skip, limit)), TRUE)

list_products(q, category, min_price, max_price, min_rating, featured, limit, skip) ==
    /\ Handle("list_products",
              [q |-> q, category |-> category, min_price |-> min_price,
               max_price |-> max_price, min_rating |-> min_rating,
               featured |-> featured, limit |-> limit, skip |-> skip],
              list_products_resp(q, category, min_price, max_price, min_rating,
                                 featured, limit, skip))
    /\ UNCHANGED <<db, product, blogpost, order, contact, user, nextOid, starts,
                   seedRuns, pend, checkedAt, ser>>

\* Lookup with a fault: a parse failure is not told apart from a miss.
LookupInvalidIsMiss(handle, coll, id, raises) ==
    IF handle = "None" THEN HTTPException(404, "Not found")
    ELSE IF raises THEN HTTPException(400, "Invalid id")
    ELSE IF ~ObjectId_is_valid(id) THEN HTTPException(404, "Not found")
    ELSE LET doc == FindById(coll, ObjectId(id))
         IN  IF doc = None THEN HTTPException(404, "Not found")
             ELSE Response(200, serialize_doc(doc[1]), TRUE)

\* The body shared by get_product and get_blog.  `raises` says whether the
\* store call itself raises (the try block covers ObjectId(...) and find_one,
\* and `except Exception` answers both with 400 "Invalid id").
Lookup(handle, coll, id, raises) ==
    IF handle = "None" THEN HTTPException(404, "Not found")
    ELSE IF ~ObjectId_is_valid(id) \/ raises THEN HTTPException(400, "Invalid id")
    ELSE LET doc == FindById(coll, ObjectId(id))
         IN  IF doc = None THEN HTTPException(404, "Not found")
             ELSE Response(200, serialize_doc(doc[1]), TRUE)

get_product(product_id, raises) ==
    /\ Handle("get_product", [id |-> product_id, raises |-> raises],
              Lookup(db, product, product_id, raises))
    /\ UNCHANGED <<db, product, blogpost, order, contact, user, nextOid, starts,
                   seedRuns, pend, checkedAt, ser>>

-----------------------------------------------------------------------------
(* Blog.                                                                   *)

RECURSIVE InsertDesc(_, _)
InsertDesc(d, s) ==
    IF s = << >> THEN <<d>>
    ELSE IF OidLess(s[1]["_id"].v, d["_id"].v) THEN <<d>> \o s
    ELSE <<s[1]>> \o InsertDesc(d, Tail(s))

RECURSIVE SortByIdDesc(_)
\* sort("_id", -1)
SortByIdDesc(s) ==
    IF s = << >> THEN << >> ELSE InsertDesc(s[1], SortByIdDesc(Tail(s)))

list_blogs_resp(limit, skip) ==
    IF ~(LimitOk(limit) /\ SkipOk(skip)) THEN Unprocessable
    ELSE IF db = "None" THEN Response(200, << >>, FALSE)
    ELSE Response(200, SerializeAll(SkipLimit(SortByIdDesc(blogpost), skip, limit)), TRUE)

list_blogs(limit, skip) ==
    /\ Handle("list_blogs", [limit |-> limit, skip |-> skip], list_blogs_resp(limit, skip))
    /\ UNCHANGED <<db, product, blogpost, order, contact, user, nextOid, starts,
                   seedRuns, pend, checkedAt, ser>>

get_blog(post_id, raises) ==
    /\ Handle("get_blog", [id |-> post_id, raises |-> raises],
              Lookup(db, blogpost, post_id, raises))
    /\ UNCHANGED <<db, product, blogpost, order, contact, user, nextOid, starts,
                   seedRuns, pend, checkedAt, ser>>

-----------------------------------------------------------------------------
(* Inserts.                                                                *)

\* insert_one(data): the document as stored, with the next ObjectId.
Stored(data) == WithField(data, "_id", PyOid(NewObjectId(nextOid)))

\* insert_one(data).inserted_id, as a string.
InsertedId == OidToStr(NewObjectId(nextOid))

\* database.create_document(collection, data): one insert into the
\* collection; returns the new identifier.
create_document(data) == [doc |-> Stored(data), id |-> InsertedId]

-----------------------------------------------------------------------------
(* Orders / checkout.                                                      *)

\* schemas.PaymentInfo.model_dump(): both fields have defaults.
PaymentDump(p) ==
    [ method |-> IF "method" \in DOMAIN p THEN p["method"] ELSE "cod",
      status |-> IF "status" \in DOMAIN p THEN p["status"] ELSE "pending" ]

\* schemas.Order: every field but status is required.
OrderRequired == {"items", "subtotal", "shipping_cost", "total", "shipping", "payment"}

OrderValid(body) == OrderRequired \subseteq DOMAIN body

\* OrderIn.model_dump() of a valid body.
OrderDump(body) ==
    [ items |-> body["items"], subtotal |-> body["subtotal"],
      shipping_cost |-> body["shipping_cost"], total |-> body["total"],
      shipping |-> body["shipping"], payment |-> PaymentDump(body["payment"]),
      status |-> IF "status" \in DOMAIN body THEN body["status"] ELSE "created" ]

\* "https://example-pay.test/checkout/"
PaymentBase == <<104, 116, 116, 112, 115, 58, 47, 47, 101, 120, 97, 109, 112, 108, 101, 45, 112, 97, 121, 46, 116, 101, 115, 116, 47, 99, 104, 101, 99, 107, 111, 117, 116, 47>>

create_order(body) ==
    IF ~OrderValid(body)
    THEN /\ Handle("create_order", body, Unprocessable)
         /\ UNCHANGED <<db, product, blogpost, order, contact, user, nextOid, starts,
                        seedRuns, pend, checkedAt, ser>>
    ELSE IF db = "None"
    THEN /\ Handle("create_order", body, HTTPException(500, "Database not available"))
         /\ UNCHANGED <<db, product, blogpost, order, contact, user, nextOid, starts,
                        seedRuns, pend, checkedAt, ser>>
    ELSE LET dumped == OrderDump(body)
             \* order_dict.get("payment", {...}): the key is always there
             order_dict == IF "payment" \in DOMAIN dumped THEN dumped
                           ELSE WithField(dumped, "payment",
                                          [method |-> "cod", status |-> "pending"])
         IN  /\ Len(order) < MaxOrders
             /\ order' = Append(order, Stored(order_dict))
             /\ nextOid' = nextOid + 1
             /\ Handle("create_order", body,
                       Response(200, [order_id |-> InsertedId, status |-> "created",
                                      payment_url |-> PaymentBase \o InsertedId], TRUE))
             /\ UNCHANGED <<db, product, blogpost, contact, user, starts, seedRuns,
                            pend, checkedAt, ser>>

-----------------------------------------------------------------------------
(* Contact.                                                                *)

\* ContactIn: three required strings.
ContactValid(payload) == {"name", "email", "message"} \subseteq DOMAIN payload

submit_contact(payload) ==
    IF ~ContactValid(payload)
    THEN /\ Handle("submit_contact", payload, Unprocessable)
         /\ UNCHANGED <<db, product, blogpost, order, contact, user, nextOid, starts,
                        seedRuns, pend, checkedAt, ser>>
    ELSE IF db = "None"
    THEN /\ Handle("submit_contact", payload, Response(200, [status |-> "received"], FALSE))
         /\ UNCHANGED <<db, product, blogpost, order, contact, user, nextOid, starts,
                        seedRuns, pend, checkedAt, ser>>
    ELSE /\ Len(contact) < MaxContacts
         /\ contact' = Append(contact, create_document(payload).doc)
         /\ nextOid' = nextOid + 1
         /\ Handle("submit_contact", payload,
                   Response(200, [status |-> "ok", id |-> create_document(payload).id], TRUE))
         /\ UNCHANGED <<db, product, blogpost, order, user, starts, seedRuns,
                        pend, checkedAt, ser>>

-----------------------------------------------------------------------------
(* Auth (demo only).                                                       *)

\* The first document of the collection satisfying the filter, or None.
FirstWhere(coll, hits) ==
    IF hits = {} THEN None ELSE Some(coll[CHOOSE i \in hits : \A j \in hits : i <= j])

\* "a@x.com" and "A@x.com" folded to one case.
FoldCase(email) == IF email = "A@x.com" THEN "a@x.com" ELSE email

\* FindUserByEmail with a fault: the comparison ignores case.
FindUserByEmailAnyCase(coll, email) ==
    FirstWhere(coll, {i \in 1..Len(coll) : FoldCase(coll[i]["email"]) = FoldCase(email)})

\* FindUserByEmail with a fault: the filter names the wrong field.
FindUserByWrongField(coll, email) ==
    FirstWhere(coll, {i \in 1..Len(coll) : coll[i]["name"] = email})

\* db["user"].find_one({"email": user.email})
FindUserByEmail(coll, email) ==
    FirstWhere(coll, {i \in 1..Len(coll) : coll[i]["email"] = email})

\* db["user"].find_one({"email": payload.email, "password": payload.password})
FindUserByCredentials(coll, email, password) ==
    FirstWhere(coll, {i \in 1..Len(coll) :
                        coll[i]["email"] = email /\ coll[i]["password"] = password})

\* Inserts begun (pre-check passed) and not yet done.
Inserting == {r \in 1..MaxInflight : pend[r].pc = "insert"}

\* The whole handler in one step.
register(name, email, password) ==
    LET request == [name |-> name, email |-> email, password |-> password]
    IN  IF db = "None"
        THEN /\ Handle("register", request, Response(200, [status |-> "ok"], FALSE))
             /\ UNCHANGED <<db, product, blogpost, order, contact, user, nextOid, starts,
                            seedRuns, pend, checkedAt, ser>>
        ELSE IF FindUserByEmail(user, email) # None
        THEN /\ Handle("register", request, HTTPException(400, "Email already registered"))
             /\ UNCHANGED <<db, product, blogpost, order, contact, user, nextOid, starts,
                            seedRuns, pend, checkedAt, ser>>
        ELSE /\ Len(user) < MaxUsers
             /\ user' = Append(user, create_document(request).doc)
             /\ checkedAt' = Append(checkedAt, Len(user))
             /\ nextOid' = nextOid + 1
             /\ Handle("register", request,
                       Response(200, [status |-> "ok",
                                      user_id |-> create_document(request).id], TRUE))
             /\ UNCHANGED <<db, product, blogpost, order, contact, starts, seedRuns,
                            pend, ser>>

\* The handler up to and including its first store call (find_one), for
\* request slot r: it answers at once, or goes on to the insert.
register_find_one(r, name, email, password) ==
    LET request == [name |-> name, email |-> email, password |-> password]
    IN  /\ pend[r].pc = "idle"
        /\ IF db = "None"
           THEN /\ Handle("register", request, Response(200, [status |-> "ok"], FALSE))
                /\ UNCHANGED <<db, product, blogpost, order, contact, user, nextOid,
                               starts, seedRuns, pend, checkedAt, ser>>
           ELSE IF FindUserByEmail(user, email) # None
           THEN /\ Handle("register", request,
                          HTTPException(400, "Email already registered"))
                /\ UNCHANGED <<db, product, blogpost, order, contact, user, nextOid,
                               starts, seedRuns, pend, checkedAt, ser>>
           ELSE /\ starts >= 1
                /\ Len(user) + Cardinality(Inserting) < MaxUsers
                /\ pend' = [pend EXCEPT ![r] = [pc |-> "insert", req |-> request,
                                                seen |-> Len(user)]]
                /\ UNCHANGED <<db, product, blogpost, order, contact, user, nextOid,
                               starts, seedRuns, last, checkedAt, ser>>

\* The rest of the handler for slot r: create_document and the answer.
register_insert(r) ==
    /\ pend[r].pc = "insert"
    /\ user' = Append(user, create_document(pend[r].req).doc)
    /\ checkedAt' = Append(checkedAt, pend[r].seen)
    /\ nextOid' = nextOid + 1
    /\ pend' = [pend EXCEPT ![r] = Idle]
    /\ Handle("register", pend[r].req,
              Response(200, [status |-> "ok",
                             user_id |-> create_document(pend[r].req).id], TRUE))
    /\ UNCHANGED <<db, product, blogpost, order, contact, starts, seedRuns, ser>>

login(email, password) ==
    /\ Handle("login", [email |-> email, password |-> password],
              IF db = "None"
              THEN Response(200, [status |-> "ok", token |-> "demo-token"], FALSE)
              ELSE LET found == FindUserByCredentials(user, email, password)
                   IN  IF found = None THEN HTTPException(401, "Invalid credentials")
                       ELSE Response(200, [status |-> "ok", token |-> "demo-token",
                                           user |-> serialize_doc(found[1])], TRUE))
    /\ UNCHANGED <<db, product, blogpost, order, contact, user, nextOid, starts,
                   seedRuns, pend, checkedAt, ser>>

-----------------------------------------------------------------------------
(* The catalogue on its own: process starts and the four read endpoints.   *)

Qs == { None, Some(<< >>), Some(<<99, 97, 114, 100>>), Some(<<99, 46, 114, 100>>) }  \* absent, "", "card", "c.rd"
Categories == { None, Some(""), Some("Cards") }
MinPrices == { None, Some(100), Some(-1) }
MaxPrices == { None, Some(250) }
MinRatings == { None, Some(47), Some(51) }
Featureds == { None, Some(TRUE), Some(FALSE) }
Limits == { 0, 1, 2, 50, 101 }
Skips == { -1, 0, 1 }

\* Identifier strings a client may send: those of the first two seeded
\* products and of the seeded posts as the store prints them, one in upper
\* case, one well-formed identifier no document has, and malformed ones
\* ("not-an-id", 23 hexadecimal characters, 24 characters one of them "g").
IdInputs ==
    { OidToStr(NewObjectId(1)), OidToStr(NewObjectId(5)),
      [k \in 1..24 |-> IF OidToStr(NewObjectId(2))[k] \in 97..102
                       THEN OidToStr(NewObjectId(2))[k] - 32
                       ELSE OidToStr(NewObjectId(2))[k]],
      OidToStr(NewObjectId(200)),
      <<110, 111, 116, 45, 97, 110, 45, 105, 100>>,
      SubSeq(OidToStr(NewObjectId(1)), 1, 23),
      [k \in 1..24 |-> IF k = 24 THEN 103 ELSE OidToStr(NewObjectId(1))[k]] }

Handles == {"None", "Database"}

CatalogNext ==
    \/ \E h \in Handles : Startup(h)
    \/ Ready /\ \E q \in Qs, category \in Categories, min_price \in MinPrices,
          max_price \in MaxPrices, min_rating \in MinRatings, featured \in Featureds,
          limit \in Limits, skip \in Skips :
            list_products(q, category, min_price, max_price, min_rating, featured, limit, skip)
    \/ Ready /\ \E id \in IdInputs, raises \in BOOLEAN : get_product(id, raises)
    \/ Ready /\ \E limit \in Limits, skip \in Skips : list_blogs(limit, skip)
    \/ Ready /\ \E id \in IdInputs, raises \in BOOLEAN : get_blog(id, raises)
    \/ Respond

CatalogSpec == Init /\ [][CatalogNext]_vars

-----------------------------------------------------------------------------
(* Registration and login on their own, each request one step; and with    *)
(* register split at its two store calls, so that requests interleave.     *)

Names == {"A"}
Emails == {"a@x.com", "A@x.com", "b@x.com"}
Passwords == {"p", "q"}

AuthNext ==
    \/ \E h \in Handles : Startup(h)
    \/ Ready /\ \E n \in Names, e \in Emails, p \in Passwords : register(n, e, p)
    \/ Ready /\ \E e \in Emails, p \in Passwords : login(e, p)
    \/ Respond

AuthSpec == Init /\ [][AuthNext]_vars

RaceNext ==
    \/ \E h \in Handles : Startup(h)
    \/ \E r \in 1..MaxInflight, n \in Names, e \in Emails, p \in Passwords :
          register_find_one(r, n, e, p)
    \/ \E r \in 1..MaxInflight : register_insert(r)
    \/ Ready /\ \E e \in Emails, p \in Passwords : login(e, p)
    \/ Respond

RaceSpec == Init /\ [][RaceNext]_vars

-----------------------------------------------------------------------------
(* The whole API, on the requests of the documented scenarios.             *)

OrderBase ==
    [ items |-> << [product_id |-> "p1", title |-> "Glass Card Pro", price |-> 199,
                    quantity |-> 1] >>,
      subtotal |-> 199, shipping_cost |-> 10, total |-> 209,
      shipping |-> [full_name |-> "A", email |-> "a@x.com", phone |-> "1",
                    address |-> "s", city |-> "c", postal_code |-> "z",
                    country |-> "n", shipping_method |-> "standard"] ]

\* An order body without a payment sub-object, with an empty one, and with
\* one that names a method.
OrderBodies ==
    { OrderBase,
      WithField(OrderBase, "payment", EmptyDict),
      WithField(OrderBase, "payment", [method |-> "card"]) }

ContactPayloads ==
    { [name |-> "A", email |-> "a@x.com", message |-> "hi"],
      [name |-> "A", email |-> "a@x.com"] }

Next ==
    \/ \E h \in Handles : Startup(h)
    \/ Ready /\ \E min_price \in {None, Some(100)}, max_price \in {None, Some(250)} :
          list_products(None, None, min_price, max_price, None, None, 50, 0)
    \/ Ready /\ \E id \in {OidToStr(NewObjectId(1)),
                           <<110, 111, 116, 45, 97, 110, 45, 105, 100>>} :
          get_product(id, FALSE)
    \/ Ready /\ \E limit \in {1, 20} : list_blogs(limit, 0)
    \/ Ready /\ \E id \in {OidToStr(NewObjectId(5)),
                           <<110, 111, 116, 45, 97, 110, 45, 105, 100>>} :
          get_blog(id, FALSE)
    \/ Ready /\ \E body \in OrderBodies : create_order(body)
    \/ Ready /\ \E payload \in ContactPayloads : submit_contact(payload)
    \/ Ready /\ \E e \in {"a@x.com", "b@x.com"} : register("A", e, "p")
    \/ Ready /\ \E e \in {"a@x.com", "b@x.com"}, p \in Passwords : login(e, p)
    \/ Respond

Spec == Init /\ [][Next]_vars

-----------------------------------------------------------------------------
(* Properties of the catalogue.                                            *)

\* The document as the API shows it: "_id" replaced by "id", the string form.
Public(d) == WithField(Pop(d, "_id"), "id", PyStr(OidToStr(d["_id"].v)))

IsLookup == last.op \in {"get_product", "get_blog"}

LookupColl == IF last.op = "get_product" THEN product ELSE blogpost

\* The documents of the looked-up collection whose identifier the request's
\* string denotes.
LookupHits ==
    {i \in 1..Len(LookupColl) : LookupColl[i]["_id"].v = ObjectId(last.req.id)}

\* The three outcomes the identifier decides.
LookupByIdentifier ==
    IF ~ObjectId_is_valid(last.req.id)
    THEN last.status = 400 /\ last.body = [detail |-> "Invalid id"]
    ELSE IF LookupHits = {}
    THEN last.status = 404 /\ last.body = [detail |-> "Not found"]
    ELSE last.status = 200 /\ \E i \in LookupHits : last.body = Public(LookupColl[i])

C4_SeedIdempotent ==
    seedRuns >= 1 =>
        /\ Len(product) = 3
        /\ Len(blogpost) = 2
        /\ \A i \in 1..3 : Pop(product[i], "_id") = sample_products[i]
        /\ \A i \in 1..2 : Pop(blogpost[i], "_id") = sample_posts[i]

\* C4 witness: seed_database has run more than once with a live handle.
C4_Witness == seedRuns >= 2 /\ Len(product) = 3 /\ Len(blogpost) = 2

\* Case-insensitive substring containment.
ContainsI(text, sub) ==
    \E i \in 0..(Len(text) - Len(sub)) :
        \A k \in 1..Len(sub) : Lower(sub[k]) = Lower(text[i + k])

\* The conjunction of the predicates whose parameter is present.
SatisfiesSupplied(doc, r) ==
    /\ r.q # None => ContainsI(doc["title"], r.q[1])
    /\ r.category # None => doc["category"] = r.category[1]
    /\ r.min_price # None => doc["price"] >= r.min_price[1]
    /\ r.max_price # None => doc["price"] <= r.max_price[1]
    /\ r.min_rating # None => doc["rating"] >= r.min_rating[1]
    /\ r.featured # None => doc["featured"] = r.featured[1]

ParamsValid(r) ==
    /\ r.min_price = None \/ r.min_price[1] >= 0
    /\ r.max_price = None \/ r.max_price[1] >= 0
    /\ r.min_rating = None \/ (r.min_rating[1] >= 0 /\ r.min_rating[1] <= 50)

PageValid(r) == r.limit >= 1 /\ r.limit <= 100 /\ r.skip >= 0

(* C6 as stated: for every valid combination of filters, with skip = 0 and *)
(* limit at least the collection size, list_products returns exactly the   *)
(* stored products satisfying the conjunction of the supplied predicates,  *)
(* a predicate being applied whenever its parameter is present.            *)
C6_Original ==
    ( /\ last.op = "list_products"
      /\ db # "None"
      /\ ParamsValid(last.req) /\ PageValid(last.req)
      /\ last.req.skip = 0
      /\ last.req.limit >= Len(product) ) =>
        /\ last.status = 200
        /\ {last.body[i] : i \in 1..Len(last.body)}
             = {Public(product[i]) : i \in {j \in 1..Len(product) :
                                              SatisfiesSupplied(product[j], last.req)}}

\* The documents a list request ranges over, serialized, in the order the
\* endpoint returns them.
Listed ==
    IF last.op = "list_products"
    THEN SerializeAll(Find(product,
             BuildFilter(last.req.q, last.req.category, last.req.min_price,
                         last.req.max_price, last.req.min_rating, last.req.featured)))
    ELSE [i \in 1..Len(blogpost) |-> Public(blogpost[Len(blogpost) + 1 - i])]

IsList == last.op \in {"list_products", "list_blogs"}

\* What follows the rejection of a list request with the given status, and
\* what a request within bounds returns.
PaginationRule(rejected) ==
    IsList =>
        /\ ~PageValid(last.req) =>
              /\ last.status = rejected
              /\ ~last.queried
        /\ (PageValid(last.req) /\ last.status = 200) =>
              /\ Len(last.body) <= last.req.limit
              /\ db # "None" =>
                    last.body = SubSeq(Listed, last.req.skip + 1,
                                       Min(Len(Listed), last.req.skip + last.req.limit))
        /\ (PageValid(last.req) /\ (last.op = "list_products" => ParamsValid(last.req)))
              => last.status = 200

-----------------------------------------------------------------------------
(* Properties of registration and login.                                   *)

\* Some stored user has exactly this email.
EmailTaken(email) == \E i \in 1..Len(user) : user[i]["email"] = email

\* What a register request through a live handle does, from the state
\* before it to the state after it.
RegisterOutcome(name, email, password) ==
    IF EmailTaken(email)
    THEN /\ last'.status = 400
         /\ last'.body = [detail |-> "Email already registered"]
         /\ user' = user
    ELSE /\ Len(user') = Len(user) + 1
         /\ SubSeq(user', 1, Len(user)) = user
         /\ Pop(user'[Len(user')], "_id")
              = [name |-> name, email |-> email, password |-> password]
         /\ \A i \in 1..Len(user) : user[i]["_id"] # user'[Len(user')]["_id"]
         /\ last'.status = 200
         /\ last'.body = [status |-> "ok",
                          user_id |-> OidToStr(user'[Len(user')]["_id"].v)]

(* C1.  With a live store handle, in every state reached by a sequence of  *)
(* API calls, register is rejected with 400 "Email already registered" and *)
(* inserts nothing if and only if some stored user has exactly (case-      *)
(* sensitively) the submitted email; otherwise it inserts exactly one new  *)
(* user document and returns its identifier.                               *)
C1_RegisterDuplicateIff ==
    [][ \A n \in Names, e \in Emails, p \in Passwords :
          (db # "None" /\ register(n, e, p)) => RegisterOutcome(n, e, p) ]_vars

\* C1 witness: a registration was rejected as a duplicate while two users
\* whose emails differ only in case had both been accepted.
C1_Witness ==
    /\ last.op = "register"
    /\ last.status = 400
    /\ db # "None"
    /\ EmailTaken(last.req.email)
    /\ EmailTaken("a@x.com")
    /\ EmailTaken("A@x.com")

\* Some stored user has exactly this email and this password.
CredentialsMatch(email, password) ==
    \E i \in 1..Len(user) : user[i]["email"] = email /\ user[i]["password"] = password

(* C2 as stated: login returns status ok with the token only when a stored *)
(* user matches both the email and the password; every other login is      *)
(* answered 401 without a token, in every reachable state.                 *)
C2_Original ==
    last.op = "login" =>
        /\ (last.status = 200 /\ "token" \in DOMAIN last.body)
              => CredentialsMatch(last.req.email, last.req.password)
        /\ ~CredentialsMatch(last.req.email, last.req.password)
              => (last.status = 401 /\ "token" \notin DOMAIN last.body)

(* C10.  The pre-check and the insert of register are separate store       *)
(* calls: two users with the same email can be stored, and whenever they   *)
(* are, the later one's pre-check ran before the earlier one was inserted  *)
(* (the two registrations overlapped).  Registrations that do not overlap  *)
(* keep emails unique.                                                     *)
C10_DuplicatesOnlyWhenOverlapping ==
    /\ Len(checkedAt) = Len(user)
    /\ \A i, j \in 1..Len(user) :
          (i < j /\ user[i]["email"] = user[j]["email"]) => i > checkedAt[j]

\* C10 witness: two stored users with the same email.
C10_Witness ==
    \E i, j \in 1..Len(user) : i < j /\ user[i]["email"] = user[j]["email"]

-----------------------------------------------------------------------------
(* Properties of the whole API.                                            *)

(* C5 as stated: without a store handle, the list endpoints answer with an *)
(* empty result and no error, and create order, submit contact and         *)
(* register answer 500 instead of reporting success.                       *)
C5_Original ==
    (db = "None" /\ last.op # "none" /\ last.status # 422) =>
        /\ last.op \in {"list_products", "list_blogs"}
              => (last.status = 200 /\ last.body = << >>)
        /\ last.op \in {"create_order", "submit_contact", "register"}
              => last.status = 500

(* C8 as stated: an order body without a payment sub-object is accepted,   *)
(* stored by one insert with payment = {method: "cod", status: "pending"}, *)
(* and answered with the new identifier and the payment URL built on it.   *)
C8_Original ==
    ( /\ last.op = "create_order"
      /\ db # "None"
      /\ "payment" \notin DOMAIN last.req ) =>
        /\ last.status = 200
        /\ order # << >>
        /\ order[Len(order)]["payment"] = [method |-> "cod", status |-> "pending"]
        /\ last.body = [order_id |-> OidToStr(order[Len(order)]["_id"].v),
                        status |-> "created",
                        payment_url |-> PaymentBase \o OidToStr(order[Len(order)]["_id"].v)]

-----------------------------------------------------------------------------
(* Serialization on its own: serialize_doc applied once and again to       *)
(* documents drawn from a bounded set.                                     *)

IdValues ==
    { PyNone, PyInt(0), PyStr(<< >>), PyStr(<<120, 49>>),
      PyOid(NewObjectId(1)), PyOid(NewObjectId(200)) }

PublicIdValues == { PyNone, PyStr(<<120, 49>>) }

TitleValues == { <<67, 97, 114, 100>>, << >> }

\* S, and every document of S extended by field f with a value of vals.
AddField(S, f, vals) == S \cup { WithField(d, f, val) : d \in S, val \in vals }

SerDocs ==
    AddField(AddField(AddField({EmptyDict}, "_id", IdValues), "id", PublicIdValues),
             "title", TitleValues)

SerializeOnce(d) ==
    /\ ser.n = 0
    /\ ser' = [n |-> 1, doc |-> d, first |-> serialize_doc(d), out |-> serialize_doc(d)]
    /\ UNCHANGED <<db, product, blogpost, order, contact, user, nextOid, starts,
                   seedRuns, last, pend, checkedAt>>

SerializeAgain ==
    /\ ser.n = 1
    /\ ser' = [n |-> 2, doc |-> ser.doc, first |-> ser.first, out |-> serialize_doc(ser.out)]
    /\ UNCHANGED <<db, product, blogpost, order, contact, user, nextOid, starts,
                   seedRuns, last, pend, checkedAt>>

SerNext ==
    \/ \E d \in SerDocs : SerializeOnce(d)
    \/ SerializeAgain

SerSpec == Init /\ [][SerNext]_vars

\* doc.get("_id") is truthy: the document's "_id" is set.
HasId(d) == "_id" \in DOMAIN d /\ Truthy(d["_id"])

\* The fields of a document other than the two identifier keys.
Rest(d) == [f \in (DOMAIN d) \ {"_id", "id"} |-> d[f]]

(* C7 (as amended).  A document whose "_id" is set comes out of            *)
(* serialize_doc without "_id" and with "id" = the identifier's string     *)
(* form; a non-empty document with no "_id" key gets "id" = null and is    *)
(* otherwise unchanged.  A second application always leaves "id" = null    *)
(* and the other fields alone, so twice equals once exactly when the       *)
(* document had no "_id" set.                                              *)
C7_SerializeIdRule ==
    /\ (ser.n >= 1 /\ HasId(ser.doc)) =>
            /\ DOMAIN ser.first = ((DOMAIN ser.doc) \ {"_id"}) \cup {"id"}
            /\ ser.first["id"] = PyStr(Str(ser.doc["_id"]))
            /\ Rest(ser.first) = Rest(ser.doc)
    /\ (ser.n >= 1 /\ DOMAIN ser.doc # {} /\ "_id" \notin DOMAIN ser.doc) =>
            /\ DOMAIN ser.first = (DOMAIN ser.doc) \cup {"id"}
            /\ ser.first["id"] = PyNone
            /\ Rest(ser.first) = Rest(ser.doc)
    /\ (ser.n = 2 /\ DOMAIN ser.doc # {}) =>
            /\ ser.out["id"] = PyNone
            /\ Rest(ser.out) = Rest(ser.first)
            /\ (ser.out = ser.first) <=> ~HasId(ser.doc)

\* C7 witness: a document with an ObjectId serialized twice; the second
\* result differs from the first.
C7_Witness ==
    /\ ser.n = 2
    /\ HasId(ser.doc)
    /\ ser.doc["_id"].t = "ObjectId"
    /\ ser.first["id"] = PyStr(OidToStr(NewObjectId(1)))
    /\ ser.out["id"] = PyNone

(* C7 as stated: the identifier rule, and applying serialize_doc twice     *)
(* gives the same result as applying it once.                              *)
C7_Original ==
    /\ (ser.n >= 1 /\ HasId(ser.doc)) =>
            /\ "_id" \notin DOMAIN ser.first
            /\ ser.first["id"] = PyStr(Str(ser.doc["_id"]))
    /\ (ser.n >= 1 /\ DOMAIN ser.doc # {} /\ "_id" \notin DOMAIN ser.doc) =>
            /\ ser.first["id"] = PyNone
            /\ Rest(ser.first) = Rest(ser.doc)
    /\ ser.n = 2 => ser.out = ser.first

====
